---- MODULE Spec2Model ----
(***************************************************************************)
(* A model of the CIAS-X AI scientist loop (kosmos/ai_scientist):          *)
(* AIScientistLoop.run with the WorldModelManager, the Planner, the        *)
(* Executor contract and the AnalysisAgent.                                *)
(*                                                                         *)
(* Numbers are integers: psnr in dB, coverage in percent, latency in ms,   *)
(* calibration error in thousandths.  A mean is kept as the pair           *)
(* <<sum, count>> the code divides.  Parameter mappings (forward_config,   *)
(* recon_params, uq_params, train_config) are opaque to the core and are   *)
(* kept as the text of the mapping.                                        *)
(*                                                                         *)
(* The two collaborators the core calls are environment choices: the       *)
(* proposal generator (Planner.llm_generate_configs, a stand-in for an LLM *)
(* call) returns one of LLMReturns, among them the list the stand-in       *)
(* returns, or raises; Executor.run_campaign returns metrics drawn as the  *)
(* simulated executor draws them, or raises.  run() has no try/except, so  *)
(* an exception raised anywhere inside it leaves it: pc = "raised".        *)
(***************************************************************************)
EXTENDS Integers, Sequences, FiniteSets, TLC

\* ---------------------------------------------------------------- bounds
MaxSeeds == 2
MaxBudget == 3

\* -------------------------------------------------------- data structures
\* A mapping no proposal or configuration gives: proposal.get(key, {}) .
EmptyMap == "{}"
\* A key a raw proposal does not have.
ABSENT == "<absent>"

\* Optional[float]: calibration_error = None
NoneValue == [present |-> FALSE, value |-> 0]
Some(v) == [present |-> TRUE, value |-> v]

Configuration(forward_config, recon_family, recon_params, uq_scheme, uq_params, train_config) ==
    [forward_config |-> forward_config,
     recon_family   |-> recon_family,
     recon_params   |-> recon_params,
     uq_scheme      |-> uq_scheme,
     uq_params      |-> uq_params,
     train_config   |-> train_config]

Metrics(psnr, coverage, latency, calibration_error) ==
    [psnr |-> psnr, coverage |-> coverage, latency |-> latency,
     calibration_error |-> calibration_error, other_metrics |-> EmptyMap]

\* The checkpoint and log names are random text the core never reads; they
\* are kept as the fixed stems the executor prefixes.
Artifacts(uq_params) ==
    [checkpoint   |-> "checkpoint.pth",
     uq_params    |-> uq_params,
     train_log    |-> "train_log.txt",
     eval_samples |-> <<"sample_0.png", "sample_1.png", "sample_2.png">>,
     fig_scripts  |-> <<"figure_0.py", "figure_1.py">>]

\* WorldModel(): no experiments, indices a defaultdict(list) with no key.
\* Reading a missing key of the defaultdict gives [], which is what the two
\* index fields hold before the first update.
EmptyWorldModel ==
    [experiments |-> <<>>,
     indices     |-> [recon_family |-> <<>>, uq_scheme |-> <<>>]]

get_all_experiments(world_model) == world_model.experiments

\* ------------------------------------------------------------ identifiers
\* str(uuid.uuid4()): a value of a 122-bit random space.  The core only ever
\* compares ids for equality, so the k-th value drawn is written k; the
\* generator is taken not to repeat a value (n values have been drawn).
uuid4(n) == n + 1

\* ExperimentRecord(id=..., config=..., metrics=..., artifacts=...): the
\* timestamp defaults to "", and __post_init__ replaces a falsy id (0 stands
\* for the empty text) by a new uuid.
ExperimentRecord(id, config, metrics, artifacts, n) ==
    [id        |-> IF id = 0 THEN uuid4(n) ELSE id,
     config    |-> config,
     metrics   |-> metrics,
     artifacts |-> artifacts,
     timestamp |-> ""]

\* The uq_scheme index is forgotten.
WorldModelManager_update_FamilyOnly(world_model, config, metrics, artifacts, n) ==
    LET experiment == ExperimentRecord(uuid4(n), config, metrics, artifacts, n)
    IN  [experiments |-> Append(world_model.experiments, experiment),
         indices |->
            [recon_family |-> Append(world_model.indices.recon_family,
                                     <<config.recon_family, experiment.id>>),
             uq_scheme    |-> world_model.indices.uq_scheme]]

\* A configuration the world model already holds has its record replaced.
WorldModelManager_update_Upsert(world_model, config, metrics, artifacts, n) ==
    LET experiment == ExperimentRecord(uuid4(n), config, metrics, artifacts, n)
        held == { k \in 1..Len(world_model.experiments) :
                    world_model.experiments[k].config = config }
    IN  IF held = {}
        THEN [experiments |-> Append(world_model.experiments, experiment),
              indices |->
                 [recon_family |-> Append(world_model.indices.recon_family,
                                          <<config.recon_family, experiment.id>>),
                  uq_scheme    |-> Append(world_model.indices.uq_scheme,
                                          <<config.uq_scheme, experiment.id>>)]]
        ELSE [world_model EXCEPT
                 !.experiments[CHOOSE k \in held : TRUE] =
                     [@ EXCEPT !.metrics = metrics, !.artifacts = artifacts]]

\* The id is drawn once, when the module is loaded, and used for every record.
WorldModelManager_update_SharedId(world_model, config, metrics, artifacts, n) ==
    LET experiment == ExperimentRecord(uuid4(0), config, metrics, artifacts, n)
    IN  [experiments |-> Append(world_model.experiments, experiment),
         indices |->
            [recon_family |-> Append(world_model.indices.recon_family,
                                     <<config.recon_family, experiment.id>>),
             uq_scheme    |-> Append(world_model.indices.uq_scheme,
                                     <<config.uq_scheme, experiment.id>>)]]

\* ----------------------------------------------------- WorldModelManager
\* Algorithm 2, WORLD_MODEL_UPDATE; n is the number of uuids drawn so far.
WorldModelManager_update(world_model, config, metrics, artifacts, n) ==
    LET experiment == ExperimentRecord(uuid4(n), config, metrics, artifacts, n)
    IN  [experiments |-> Append(world_model.experiments, experiment),
         indices |->
            [recon_family |-> Append(world_model.indices.recon_family,
                                     <<config.recon_family, experiment.id>>),
             uq_scheme    |-> Append(world_model.indices.uq_scheme,
                                     <<config.uq_scheme, experiment.id>>)]]

\* --------------------------------------------------------------- Executor
\* random.uniform(-2, 3) added to base_psnr: its two ends.
PsnrNoise == {-2, 3}
\* random.uniform(0.85, 0.95), in percent: its two ends.
Coverages == {85, 95}
\* random.uniform(10, 50), in ms.
Latencies == {10}
\* random.uniform(0.01, 0.1), in thousandths.
CalibrationErrors == {10}

uq_params_fitted(config) ==
    IF config.uq_scheme = "Conformal" THEN "{threshold: 0.9, alpha: 0.1}"
    ELSE IF config.uq_scheme = "Ensemble" THEN "{n_models: 5, variance: 0.05}"
    ELSE EmptyMap

base_psnr(config) == IF config.recon_family = "CIAS-Core-ELP" THEN 28 ELSE 26

\* What Executor.run_campaign(config) can return: <<metrics, artifacts>>.
run_campaign(config) ==
    { <<Metrics(base_psnr(config) + d, c, l, ce), Artifacts(uq_params_fitted(config))>> :
        d \in PsnrNoise, c \in Coverages, l \in Latencies,
        ce \in IF config.uq_scheme # "None"
               THEN {Some(e) : e \in CalibrationErrors}
               ELSE {NoneValue} }

\* ------------------------------------------------------- sequence helpers
RECURSIVE SumSeq(_)
SumSeq(s) == IF s = <<>> THEN 0 ELSE Head(s) + SumSeq(Tail(s))

\* max(seq, key=...): the first element with the largest key.
RECURSIVE MaxByPsnrFrom(_, _)
MaxByPsnrFrom(best, s) ==
    IF s = <<>> THEN best
    ELSE MaxByPsnrFrom(IF Head(s).metrics.psnr > best.metrics.psnr THEN Head(s) ELSE best,
                       Tail(s))
MaxByPsnr(s) == MaxByPsnrFrom(Head(s), Tail(s))

Range(s) == { s[k] : k \in 1..Len(s) }
Min2(a, b) == IF a < b THEN a ELSE b
Prefix(s, n) == SubSeq(s, 1, Min2(n, Len(s)))
PsnrOf(s) == [k \in 1..Len(s) |-> s[k].metrics.psnr]

\* ---------------------------------------------------------------- Planner
\* The number of experiments of each family / scheme: a dict keyed by the
\* values that occur.
CountBy(experiments, field) ==
    [v \in { experiments[k].config[field] : k \in 1..Len(experiments) } |->
        Cardinality({ k \in 1..Len(experiments) : experiments[k].config[field] = v })]

\* summarize_world_model whose summary of the empty world model carries no
\* under-explored marker.
summarize_world_model_Unmarked(world_model) ==
    LET experiments == get_all_experiments(world_model)
        best_exp    == MaxByPsnr(experiments)
    IN  IF experiments = <<>>
        THEN [total_experiments |-> 0,
              best_psnr         |-> 0,
              frontiers         |-> <<>>,
              constraints       |-> EmptyMap,
              underexplored     |-> <<>>]
        ELSE [total_experiments |-> Len(experiments),
              best_psnr         |-> best_exp.metrics.psnr,
              best_config       |-> best_exp.config.recon_family,
              avg_psnr          |-> <<SumSeq(PsnrOf(experiments)), Len(experiments)>>,
              recon_families    |-> CountBy(experiments, "recon_family"),
              uq_schemes        |-> CountBy(experiments, "uq_scheme"),
              frontiers         |-> <<>>,
              constraints       |-> "{max_latency: 100, min_coverage: 0.8}"]

\* Planner.summarize_world_model.  The summary of an empty world model has
\* neither avg_psnr nor the two count mappings.
summarize_world_model(world_model) ==
    LET experiments == get_all_experiments(world_model)
        best_exp    == MaxByPsnr(experiments)
    IN  IF experiments = <<>>
        THEN [total_experiments |-> 0,
              best_psnr         |-> 0,
              frontiers         |-> <<>>,
              constraints       |-> EmptyMap,
              underexplored     |-> <<"all">>]
        ELSE [total_experiments |-> Len(experiments),
              best_psnr         |-> best_exp.metrics.psnr,
              best_config       |-> best_exp.config.recon_family,
              avg_psnr          |-> <<SumSeq(PsnrOf(experiments)), Len(experiments)>>,
              recon_families    |-> CountBy(experiments, "recon_family"),
              uq_schemes        |-> CountBy(experiments, "uq_scheme"),
              frontiers         |-> <<>>,
              constraints       |-> "{max_latency: 100, min_coverage: 0.8}"]

\* summary.get(key, {}).keys()
KeysOf(summary, key) ==
    IF key \in DOMAIN summary THEN DOMAIN summary[key] ELSE {}

all_families == <<"CIAS-Core", "CIAS-Core-ELP", "Baseline-CNN">>
all_uq == <<"Conformal", "Ensemble", "None">>

\* [f"{kind}:{v}" for v in vocabulary if v not in tested], the tag kept as
\* the pair <<kind, v>>.
RECURSIVE GapsOf(_, _, _)
GapsOf(kind, vocabulary, tested) ==
    IF vocabulary = <<>> THEN <<>>
    ELSE (IF Head(vocabulary) \notin tested
          THEN <<<<kind, Head(vocabulary)>>>> ELSE <<>>)
         \o GapsOf(kind, Tail(vocabulary), tested)

\* identify_underexplored_regions without the sentinel for an empty list.
identify_underexplored_regions_NoSentinel(summary) ==
    GapsOf("recon_family", all_families, KeysOf(summary, "recon_families"))
    \o GapsOf("uq_scheme", all_uq, KeysOf(summary, "uq_schemes"))

\* Planner.identify_underexplored_regions
identify_underexplored_regions(summary) ==
    LET gaps == GapsOf("recon_family", all_families, KeysOf(summary, "recon_families"))
                \o GapsOf("uq_scheme", all_uq, KeysOf(summary, "uq_schemes"))
    IN  IF gaps # <<>> THEN gaps ELSE <<<<"explore_variations", "">>>>

\* Planner.build_planner_prompt: the values the template is filled with.
build_planner_prompt(gaps, frontiers, constraints, budget) ==
    [gaps        |-> gaps,
     n_frontiers |-> Len(frontiers),
     constraints |-> constraints,
     budget      |-> budget,
     n_propose   |-> Min2(3, budget)]

RawProposal(recon_family, uq_scheme, recon_params, forward_config, uq_params, train_config) ==
    [is_mapping     |-> TRUE,
     recon_family   |-> recon_family,
     uq_scheme      |-> uq_scheme,
     recon_params   |-> recon_params,
     forward_config |-> forward_config,
     uq_params      |-> uq_params,
     train_config   |-> train_config]

\* The list Planner.llm_generate_configs returns as written.
SimulatedProposals ==
    << RawProposal("CIAS-Core-ELP", "Conformal", "{num_layers: 10, hidden_dim: 128}",
                   "{compression_ratio: 8}", "{alpha: 0.1}", "{epochs: 50, lr: 0.001}"),
       RawProposal("CIAS-Core", "Ensemble", "{num_layers: 8, hidden_dim: 64}",
                   "{compression_ratio: 16}", "{n_models: 5}", "{epochs: 40, lr: 0.0005}"),
       RawProposal("Baseline-CNN", "None", "{num_layers: 6}",
                   "{compression_ratio: 8}", EmptyMap, "{epochs: 30, lr: 0.001}") >>

\* A proposal with a family no design space declares and nothing else.
UnknownFamilyProposal ==
    RawProposal("Transformer-XL", ABSENT, ABSENT, ABSENT, ABSENT, ABSENT)
\* A proposal with no key at all.
BareProposal ==
    RawProposal(ABSENT, ABSENT, ABSENT, ABSENT, ABSENT, ABSENT)
\* An element of the returned list that is no mapping (it has no .get).
NotAMapping ==
    [is_mapping |-> FALSE, recon_family |-> ABSENT, uq_scheme |-> ABSENT,
     recon_params |-> ABSENT, forward_config |-> ABSENT, uq_params |-> ABSENT,
     train_config |-> ABSENT]

\* What the proposal generator can hand back for a prompt: a list of raw
\* proposals (the simulated one, an empty one, ones with unknown or missing
\* keys, a single one, a malformed one), or an exception.
LLMReturns ==
    { [raised |-> FALSE, proposals |-> SimulatedProposals],
      [raised |-> FALSE, proposals |-> <<SimulatedProposals[2]>>],
      [raised |-> FALSE, proposals |-> <<>>],
      [raised |-> FALSE, proposals |-> <<UnknownFamilyProposal, BareProposal>>],
      [raised |-> FALSE, proposals |-> <<NotAMapping>>],
      [raised |-> TRUE,  proposals |-> <<>>] }
llm_generate_configs(prompt) == LLMReturns

\* proposal.get(key, default)
Get(proposal, key, default) ==
    IF proposal[key] = ABSENT THEN default ELSE proposal[key]

\* Planner.project_to_design_space.  A design space is
\* [has_recon_families, recon_families, uq_schemes]; it raises (AttributeError)
\* for a proposal without .get, and (KeyError, IndexError) when the fallback
\* reads design_space["recon_families"][0] and there is none.
project_to_design_space(proposal, design_space) ==
    LET declared  == IF design_space.has_recon_families
                     THEN design_space.recon_families ELSE <<>>
        proposed  == Get(proposal, "recon_family", "CIAS-Core")
        in_space  == proposed \in Range(declared)
    IN  IF ~proposal.is_mapping \/ (~in_space /\ declared = <<>>)
        THEN [raised |-> TRUE,
              config |-> Configuration(EmptyMap, "", EmptyMap, "", EmptyMap, EmptyMap)]
        ELSE [raised |-> FALSE,
              config |-> Configuration(
                  Get(proposal, "forward_config", EmptyMap),
                  IF in_space THEN proposed ELSE declared[1],
                  Get(proposal, "recon_params", EmptyMap),
                  Get(proposal, "uq_scheme", "None"),
                  Get(proposal, "uq_params", EmptyMap),
                  Get(proposal, "train_config", EmptyMap))]

\* Planner.is_valid_config
is_valid_config(config, constraints) == TRUE

\* The loop of planner_step over proposals_raw: the configurations kept, and
\* whether a projection raised.
RECURSIVE ProjectAll(_, _, _)
ProjectAll(proposals_raw, design_space, constraints) ==
    IF proposals_raw = <<>> THEN [raised |-> FALSE, configs |-> <<>>]
    ELSE LET first == project_to_design_space(Head(proposals_raw), design_space)
             rest  == ProjectAll(Tail(proposals_raw), design_space, constraints)
         IN  IF first.raised THEN [raised |-> TRUE, configs |-> <<>>]
             ELSE IF rest.raised THEN rest
             ELSE [raised |-> FALSE,
                   configs |-> (IF is_valid_config(first.config, constraints)
                                THEN <<first.config>> ELSE <<>>) \o rest.configs]

\* TruncateToBudget that cuts nothing.
TruncateToBudget_KeepsAll(new_configs, budget_remaining) == new_configs

\* if len(new_configs) > budget_remaining: new_configs[:budget_remaining]
TruncateToBudget(new_configs, budget_remaining) ==
    IF Len(new_configs) > budget_remaining
    THEN Prefix(new_configs, budget_remaining)
    ELSE new_configs

\* The prompt planner_step builds from the summary.
planner_prompt(summary, budget_remaining) ==
    build_planner_prompt(identify_underexplored_regions(summary),
                         summary.frontiers, summary.constraints, budget_remaining)

\* Planner.planner_step (Algorithm 3), given what the proposal generator
\* returned for the prompt: [raised, configs].
planner_step(summary, design_space, budget_remaining, llm) ==
    IF llm.raised THEN [raised |-> TRUE, configs |-> <<>>]
    ELSE LET projected == ProjectAll(llm.proposals, design_space, summary.constraints)
         IN  IF projected.raised THEN projected
             ELSE [raised  |-> FALSE,
                   configs |-> TruncateToBudget(projected.configs, budget_remaining)]

\* ---------------------------------------------------------- AnalysisAgent
\* getattr(metrics, obj, 0): the attribute when Metrics has a field of that
\* name, else the default 0. A value is a number when present is TRUE:
\* calibration_error may be None and other_metrics is a dict, and a key of
\* other_metrics is not an attribute.
GetAttr(metrics, obj) ==
    IF obj \notin DOMAIN metrics THEN Some(0)
    ELSE IF obj = "calibration_error" THEN metrics[obj]
    ELSE IF obj = "other_metrics" THEN NoneValue
    ELSE Some(metrics[obj])

\* DominatesFrom without the strictly-better requirement.
RECURSIVE DominatesFrom_NoStrictness(_, _, _, _)
DominatesFrom_NoStrictness(metrics1, metrics2, objectives, strictly_better_in_one) ==
    IF objectives = <<>> THEN "yes"
    ELSE LET val1 == GetAttr(metrics1, Head(objectives))
             val2 == GetAttr(metrics2, Head(objectives))
         IN  IF ~val1.present \/ ~val2.present THEN "TypeError"
             ELSE IF val2.value < val1.value THEN "no"
             ELSE DominatesFrom_NoStrictness(metrics1, metrics2, Tail(objectives),
                                             strictly_better_in_one)

\* The loop over the objectives in compute_pareto_front, with its early
\* break: whether exp2 dominates exp1 ("yes" / "no"). `val2 < val1` is
\* the first comparison made, and raises TypeError unless both are numbers.
RECURSIVE DominatesFrom(_, _, _, _)
DominatesFrom(metrics1, metrics2, objectives, strictly_better_in_one) ==
    IF objectives = <<>>
    THEN IF strictly_better_in_one THEN "yes" ELSE "no"
    ELSE LET val1 == GetAttr(metrics1, Head(objectives))
             val2 == GetAttr(metrics2, Head(objectives))
         IN  IF ~val1.present \/ ~val2.present THEN "TypeError"
             ELSE IF val2.value < val1.value THEN "no"
             ELSE DominatesFrom(metrics1, metrics2, Tail(objectives),
                                strictly_better_in_one \/ val2.value > val1.value)

\* The loop over exp2 for one exp1, with its skip of the same id and its
\* break at the first dominating experiment.
RECURSIVE IsDominated(_, _, _)
IsDominated(exp1, experiments, objectives) ==
    IF experiments = <<>> THEN "no"
    ELSE LET exp2 == Head(experiments)
         IN  IF exp1.id = exp2.id
             THEN IsDominated(exp1, Tail(experiments), objectives)
             ELSE LET dominates == DominatesFrom(exp1.metrics, exp2.metrics,
                                                 objectives, FALSE)
                  IN  IF dominates = "no"
                      THEN IsDominated(exp1, Tail(experiments), objectives)
                      ELSE dominates

\* ParetoFrom with the test on is_dominated inverted.
RECURSIVE ParetoFrom_Inverted(_, _, _, _)
ParetoFrom_Inverted(pareto_ids, todo, experiments, objectives) ==
    IF todo = <<>> THEN [raised |-> FALSE, ids |-> pareto_ids]
    ELSE LET is_dominated == IsDominated(Head(todo), experiments, objectives)
         IN  IF is_dominated = "TypeError" THEN [raised |-> TRUE, ids |-> {}]
             ELSE ParetoFrom_Inverted(IF is_dominated = "yes"
                                      THEN pareto_ids \cup {Head(todo).id}
                                      ELSE pareto_ids,
                                      Tail(todo), experiments, objectives)

\* The loop over exp1: the ids added to pareto_ids, or the exception.
RECURSIVE ParetoFrom(_, _, _, _)
ParetoFrom(pareto_ids, todo, experiments, objectives) ==
    IF todo = <<>> THEN [raised |-> FALSE, ids |-> pareto_ids]
    ELSE LET is_dominated == IsDominated(Head(todo), experiments, objectives)
         IN  IF is_dominated = "TypeError" THEN [raised |-> TRUE, ids |-> {}]
             ELSE ParetoFrom(IF is_dominated = "no"
                             THEN pareto_ids \cup {Head(todo).id}
                             ELSE pareto_ids,
                             Tail(todo), experiments, objectives)

\* AnalysisAgent.compute_pareto_front: [raised, ids].
compute_pareto_front(experiments, objectives) ==
    ParetoFrom({}, experiments, experiments, objectives)

HasCalibration(exp) == exp.metrics.calibration_error.present
CalibrationOf(s) == [k \in 1..Len(s) |-> s[k].metrics.calibration_error.value]

RECURSIVE MaxSeq(_)
MaxSeq(s) == IF Len(s) = 1 THEN s[1]
             ELSE LET m == MaxSeq(Tail(s)) IN IF s[1] >= m THEN s[1] ELSE m
RECURSIVE MinSeq(_)
MinSeq(s) == IF Len(s) = 1 THEN s[1]
             ELSE LET m == MinSeq(Tail(s)) IN IF s[1] <= m THEN s[1] ELSE m

\* Python floats, with MantissaBits significant bits in place of the 53 of a
\* double: a float is the fraction <<numerator, power of two>>, and every
\* sum and quotient is rounded to the nearest float, ties to the even
\* mantissa.
MantissaBits == 4

RECURSIVE Pow2(_)
Pow2(n) == IF n = 0 THEN 1 ELSE 2 * Pow2(n - 1)

\* The power of two that brings num / den below 2^MantissaBits.
RECURSIVE DivisorFor(_, _, _)
DivisorFor(num, den, a) ==
    IF num < Pow2(MantissaBits) * den * a THEN a ELSE DivisorFor(num, den, 2 * a)

\* The power of two that brings num / den up to 2^(MantissaBits - 1).
RECURSIVE MultiplierFor(_, _, _)
MultiplierFor(num, den, b) ==
    IF num * b >= Pow2(MantissaBits - 1) * den THEN b ELSE MultiplierFor(num, den, 2 * b)

\* num / den, between 2^(MantissaBits - 1) and 2^MantissaBits once divided
\* by a or multiplied by b, rounded to a whole mantissa.
Nearest(num, den, a, b) ==
    LET m  == (num * b) \div (den * a)
        r  == (num * b) % (den * a)
        up == 2 * r > den * a \/ (2 * r = den * a /\ m % 2 = 1)
    IN  <<(IF up THEN m + 1 ELSE m) * a, b>>

\* The float nearest to num / den (num >= 0, den > 0); the operands are
\* taken once, as the elements of one-element sets.
RoundToFloat(num, den) ==
    CHOOSE float \in
        { IF n = 0 THEN <<0, 1>>
          ELSE Nearest(n, d, DivisorFor(n, d, 1), MultiplierFor(n, d, 1)) :
            n \in {num}, d \in {den} } : TRUE

\* x + y for floats that are whole numbers (the sum is one too).
FloatAdd(x, y) ==
    CHOOSE sum \in { float[1] \div float[2] : float \in {RoundToFloat(x + y, 1)} } : TRUE

\* sum(calib_errors): the additions from left to right, starting at 0.
RECURSIVE FloatSumFrom(_, _)
FloatSumFrom(total, s) ==
    IF s = <<>> THEN total
    ELSE CHOOSE sum \in { FloatSumFrom(next, Tail(s)) :
                            next \in {FloatAdd(total, Head(s))} } : TRUE
FloatSum(s) == FloatSumFrom(0, s)

\* compute_calibration_stats that divides by the number of all records.
compute_calibration_stats_CountsAll(experiments) ==
    LET calib_errors == CalibrationOf(SelectSeq(experiments, HasCalibration))
    IN  IF calib_errors = <<>>
        THEN [mean_error |-> <<0, 1>>, max_error |-> 0]
        ELSE [mean_error |-> RoundToFloat(FloatSum(calib_errors), Len(experiments)),
              max_error  |-> MaxSeq(calib_errors),
              min_error  |-> MinSeq(calib_errors)]

\* AnalysisAgent.compute_calibration_stats; mean_error is the float
\* sum(calib_errors) / len(calib_errors).
compute_calibration_stats(experiments) ==
    LET calib_errors == CalibrationOf(SelectSeq(experiments, HasCalibration))
    IN  IF calib_errors = <<>>
        THEN [mean_error |-> <<0, 1>>, max_error |-> 0]
        ELSE [mean_error |-> RoundToFloat(FloatSum(calib_errors), Len(calib_errors)),
              max_error  |-> MaxSeq(calib_errors),
              min_error  |-> MinSeq(calib_errors)]

\* AnalysisAgent.summarize_trends: the values the sentence is built from.
summarize_trends(experiments, pareto_ids, calib_stats) ==
    LET OnFront(e)  == e.id \in pareto_ids
        pareto_exps == SelectSeq(experiments, OnFront)
        best_config == MaxByPsnr(pareto_exps)
    IN  IF pareto_exps = <<>>
        THEN [text |-> "No significant trends found."]
        ELSE [text        |-> "Pareto frontier contains",
              n_pareto    |-> Len(pareto_exps),
              avg_psnr    |-> <<SumSeq(PsnrOf(pareto_exps)), Len(pareto_exps)>>,
              best_family |-> best_config.config.recon_family,
              best_psnr   |-> best_config.metrics.psnr,
              calibration |-> IF calib_stats.mean_error[1] > 0
                              THEN Some(calib_stats.mean_error) 
                              ELSE [present |-> FALSE, value |-> <<0, 1>>]]

StratumKey(exp) == <<exp.config.recon_family, exp.config.uq_scheme>>

\* StrataFrom that starts a new entry for every experiment.
RECURSIVE StrataFrom_NoMerge(_, _)
StrataFrom_NoMerge(strata, experiments) ==
    IF experiments = <<>> THEN strata
    ELSE StrataFrom_NoMerge(Append(strata, [key         |-> StratumKey(Head(experiments)),
                                            experiments |-> <<Head(experiments)>>]),
                            Tail(experiments))

\* strata[key].append(exp): the dict, a sequence of [key, experiments]
\* entries in insertion order, after one more experiment.
StrataAppend(strata, exp) ==
    IF \A k \in 1..Len(strata) : strata[k].key # StratumKey(exp)
    THEN Append(strata, [key |-> StratumKey(exp), experiments |-> <<exp>>])
    ELSE [k \in 1..Len(strata) |->
             IF strata[k].key = StratumKey(exp)
             THEN [strata[k] EXCEPT !.experiments = Append(@, exp)]
             ELSE strata[k]]

\* The loop that fills strata; each round works on the dict the round
\* before left (bound once, as the one element of a set).
RECURSIVE StrataFrom(_, _)
StrataFrom(strata, experiments) ==
    IF experiments = <<>> THEN strata
    ELSE CHOOSE filled \in { StrataFrom(next, Tail(experiments)) :
                                next \in {StrataAppend(strata, Head(experiments))} } : TRUE

Strata(experiments) == StrataFrom(<<>>, experiments)

\* The objectives analysis_step passes are psnr and coverage, which every
\* Metrics holds as numbers.
StratumPareto(stratum_exps) ==
    compute_pareto_front(stratum_exps, <<"psnr", "coverage">>).ids

\* One round of the loop over strata.items(): the trend string's parts.
StratumTrend(stratum) ==
    [stratum_key |-> stratum.key,
     summary     |-> summarize_trends(stratum.experiments,
                                      StratumPareto(stratum.experiments),
                                      compute_calibration_stats(stratum.experiments))]

\* analysis_step with one frontier over all records in place of one per stratum.
analysis_step_Unstratified(world_model) ==
    CHOOSE returned \in
        { [pareto_set |-> StratumPareto(get_all_experiments(world_model)),
           trends     |-> [k \in 1..Len(strata) |-> StratumTrend(strata[k])]] :
            strata \in {Strata(get_all_experiments(world_model))} } : TRUE

\* AnalysisAgent.analysis_step (Algorithm 5): [pareto_set, trends], from the
\* strata dict built once.
analysis_step(world_model) ==
    CHOOSE returned \in
        { [pareto_set |-> UNION { StratumPareto(strata[k].experiments) :
                                    k \in 1..Len(strata) },
           trends     |-> [k \in 1..Len(strata) |-> StratumTrend(strata[k])]] :
            strata \in {Strata(get_all_experiments(world_model))} } : TRUE

\* -------------------------------------------------------- AIScientistLoop
VARIABLES
    pc,               \* where run() is
    design_space,     \* self.design_space
    initial_configs,  \* self.initial_configs
    budget_max,       \* self.budget_max
    world_model,      \* self.world_model
    planner_context,  \* self.planner_context
    budget_used,      \* run's local budget_used
    iteration,        \* run's local iteration
    summary,          \* run's local summary
    prompt,           \* the prompt planner_step built in this round
    new_configs,      \* run's local new_configs
    j,                \* position of the running for loop (i in the seed phase)
    pending,          \* <<metrics, artifacts>> returned, not yet stored
    uuid_count,       \* number of uuids drawn
    failure,          \* what raised, when pc = "raised"
    final_pareto,     \* the first component of run's return value
    executor_calls,   \* Executor.run_campaign calls started
    executor_returns, \* Executor.run_campaign calls that returned
    call,             \* a function called on its own: its name and arguments
    result,           \* what that call returned or raised
    collector,        \* the MetricsCollector: its _lock and a counter
    locks,            \* the threading.Lock objects: created, and held
    threads           \* where each thread calling the collector is

vars == <<pc, design_space, initial_configs, budget_max, world_model,
          planner_context, budget_used, iteration, summary, prompt, new_configs,
          j, pending, uuid_count, failure, final_pareto, executor_calls,
          executor_returns, call, result, collector, locks, threads>>

\* The state of the MetricsCollector and of the threads calling it.
metrics_vars == <<collector, locks, threads>>

\* iteration is only printed; it is kept up to MaxIteration.
MaxIteration == 2

SeedConfigs ==
    { Configuration("{compression_ratio: 8}", "CIAS-Core", "{num_layers: 8}",
                    "None", EmptyMap, "{epochs: 30}"),
      Configuration("{compression_ratio: 16}", "Baseline-CNN", "{num_layers: 6}",
                    "Conformal", "{alpha: 0.1}", "{epochs: 30}") }

SeedLists == UNION { [1..n -> SeedConfigs] : n \in 0..MaxSeeds }

DesignSpaces ==
    { [has_recon_families |-> TRUE,
       recon_families     |-> <<"CIAS-Core", "CIAS-Core-ELP", "Baseline-CNN">>,
       uq_schemes         |-> <<"Conformal", "Ensemble", "None">>],
      [has_recon_families |-> TRUE,
       recon_families     |-> <<"Baseline-CNN">>,
       uq_schemes         |-> <<"None">>] }

NoPending == <<Metrics(0, 0, 0, NoneValue), Artifacts(EmptyMap)>>
NoSummary == summarize_world_model(EmptyWorldModel)
NoCall == [fn |-> "none"]

\* The threads that call the collector.
Threads == {"t1", "t2", "t3"}
\* MetricsCollector() as __init__ leaves it: the first Lock, counters at 0.
NewCollector == [lock |-> 1, agents_created |-> 0]
\* One Lock object exists, and nobody holds it.
OneLock == [created |-> 1, held |-> {}]
\* No thread is in a method of the collector.
Idle == [pc |-> "idle", method |-> "none", lock |-> 0, loaded |-> 0, calls |-> 0]
NoThreads == [t \in Threads |-> Idle]
NoResult == [done |-> FALSE]

\* AIScientistLoop.__init__, and run() up to its first for loop.
Init ==
    /\ design_space \in DesignSpaces
    /\ initial_configs \in SeedLists
    /\ budget_max \in 0..MaxBudget
    /\ world_model = EmptyWorldModel
    /\ planner_context = [keys |-> {}, trends |-> <<>>, pareto_size |-> 0]
    /\ pc = "seed"
    /\ j = 1
    /\ budget_used = 0
    /\ iteration = 0
    /\ summary = NoSummary
    /\ prompt = planner_prompt(NoSummary, 0)
    /\ new_configs = <<>>
    /\ pending = NoPending
    /\ uuid_count = 0
    /\ failure = "none"
    /\ final_pareto = {}
    /\ executor_calls = 0
    /\ executor_returns = 0
    /\ call = NoCall
    /\ result = NoResult
    /\ collector = NewCollector
    /\ locks = OneLock
    /\ threads = NoThreads

\* An exception leaves run(): nothing else changes.
Raise(what) ==
    /\ pc' = "raised"
    /\ failure' = what
    /\ UNCHANGED <<metrics_vars, call, result, design_space, initial_configs,
                   budget_max, world_model,
                   planner_context, budget_used, iteration, summary, prompt,
                   new_configs, j, pending, uuid_count, final_pareto,
                   executor_returns>>

\* Phase 1, line 69: Executor.run_campaign(config) returns.
SeedRunCampaign ==
    /\ pc = "seed"
    /\ j <= Len(initial_configs)
    /\ \E out \in run_campaign(initial_configs[j]) : pending' = out
    /\ pc' = "seed_update"
    /\ executor_calls' = executor_calls + 1
    /\ executor_returns' = executor_returns + 1
    /\ UNCHANGED <<metrics_vars, call, result, design_space, initial_configs,
                   budget_max, world_model,
                   planner_context, budget_used, iteration, summary, prompt,
                   new_configs, j, uuid_count, failure, final_pareto>>

\* Phase 1, line 69: Executor.run_campaign(config) raises.
SeedRunCampaignRaises ==
    /\ pc = "seed"
    /\ j <= Len(initial_configs)
    /\ executor_calls' = executor_calls + 1
    /\ Raise("Executor.run_campaign")

\* Phase 1, lines 70-72: the record is stored and the for loop moves on.
SeedUpdate ==
    /\ pc = "seed_update"
    /\ world_model' = WorldModelManager_update(world_model, initial_configs[j],
                                               pending[1], pending[2], uuid_count)
    /\ uuid_count' = uuid_count + 1
    /\ j' = j + 1
    /\ pc' = "seed"
    /\ UNCHANGED <<metrics_vars, call, result, design_space, initial_configs,
                   budget_max, planner_context,
                   budget_used, iteration, summary, prompt, new_configs, pending,
                   failure, final_pareto, executor_calls, executor_returns>>

\* budget_used = 0: the seeds are not counted.
SeedBudget_Zero(configs) == 0

\* Lines 74-75, after the last seed.
SeedBudget(configs) == Len(configs)
SeedPhaseEnds ==
    /\ pc = "seed"
    /\ j > Len(initial_configs)
    /\ budget_used' = SeedBudget(initial_configs)
    /\ iteration' = 0
    /\ pc' = "while"
    /\ UNCHANGED <<metrics_vars, call, result, design_space, initial_configs,
                   budget_max, world_model,
                   planner_context, summary, prompt, new_configs, j, pending,
                   uuid_count, failure, final_pareto, executor_calls,
                   executor_returns>>

\* Line 78: while budget_used < self.budget_max
\* The while test with <= in place of <.
LoopCondition_OrEqual(used, max) == used <= max
LoopCondition(used, max) == used < max

\* Lines 78-89 on a world model with a record: a round starts and the
\* summary is taken and printed.
RoundStarts ==
    /\ pc = "while"
    /\ LoopCondition(budget_used, budget_max)
    /\ "avg_psnr" \in DOMAIN summarize_world_model(world_model)
    /\ iteration' = IF iteration < MaxIteration THEN iteration + 1 ELSE iteration
    /\ summary' = summarize_world_model(world_model)
    /\ pc' = "plan"
    /\ UNCHANGED <<metrics_vars, call, result, design_space, initial_configs,
                   budget_max, world_model,
                   planner_context, budget_used, prompt, new_configs, j, pending,
                   uuid_count, failure, final_pareto, executor_calls,
                   executor_returns>>

\* Lines 78-89 on an empty world model: line 89 formats summary['avg_psnr'],
\* a key the summary of an empty world model does not have (KeyError).
RoundStartsKeyError ==
    /\ pc = "while"
    /\ LoopCondition(budget_used, budget_max)
    /\ "avg_psnr" \notin DOMAIN summarize_world_model(world_model)
    /\ iteration' = IF iteration < MaxIteration THEN iteration + 1 ELSE iteration
    /\ summary' = summarize_world_model(world_model)
    /\ pc' = "raised"
    /\ failure' = "KeyError: avg_psnr"
    /\ UNCHANGED <<metrics_vars, call, result, design_space, initial_configs,
                   budget_max, world_model,
                   planner_context, budget_used, prompt, new_configs, j, pending,
                   uuid_count, final_pareto, executor_calls, executor_returns>>

\* Line 78 false: on to phase 3.
LoopExits ==
    /\ pc = "while"
    /\ ~LoopCondition(budget_used, budget_max)
    /\ pc' = "final"
    /\ UNCHANGED <<metrics_vars, call, result, design_space, initial_configs,
                   budget_max, world_model,
                   planner_context, budget_used, iteration, summary, prompt,
                   new_configs, j, pending, uuid_count, failure, final_pareto,
                   executor_calls, executor_returns>>

\* Line 93
BudgetRemaining(max, used) == max - used

\* Lines 93-99: planner_step returns the round's configurations.
PlannerStep ==
    /\ pc = "plan"
    /\ prompt' = planner_prompt(summary, BudgetRemaining(budget_max, budget_used))
    /\ \E llm \in llm_generate_configs(prompt') :
         LET r == planner_step(summary, design_space,
                               BudgetRemaining(budget_max, budget_used), llm)
         IN  /\ ~r.raised
             /\ new_configs' = r.configs
    /\ j' = 1
    /\ pc' = "exec"
    /\ UNCHANGED <<metrics_vars, call, result, design_space, initial_configs,
                   budget_max, world_model,
                   planner_context, budget_used, iteration, summary, pending,
                   uuid_count, failure, final_pareto, executor_calls,
                   executor_returns>>

\* Lines 93-98: the proposal generator raises, or a projection does.
PlannerStepRaises ==
    /\ pc = "plan"
    /\ prompt' = planner_prompt(summary, BudgetRemaining(budget_max, budget_used))
    /\ \E llm \in llm_generate_configs(prompt') :
         /\ planner_step(summary, design_space,
                         BudgetRemaining(budget_max, budget_used), llm).raised
         /\ failure' = IF llm.raised THEN "Planner.llm_generate_configs"
                       ELSE "Planner.project_to_design_space"
    /\ pc' = "raised"
    /\ UNCHANGED <<metrics_vars, call, result, design_space, initial_configs,
                   budget_max, world_model,
                   planner_context, budget_used, iteration, summary,
                   new_configs, j, pending, uuid_count, final_pareto,
                   executor_calls, executor_returns>>

\* Phase C, line 105: Executor.run_campaign(config) returns.
RunCampaign ==
    /\ pc = "exec"
    /\ j <= Len(new_configs)
    /\ \E out \in run_campaign(new_configs[j]) : pending' = out
    /\ pc' = "update"
    /\ executor_calls' = executor_calls + 1
    /\ executor_returns' = executor_returns + 1
    /\ UNCHANGED <<metrics_vars, call, result, design_space, initial_configs,
                   budget_max, world_model,
                   planner_context, budget_used, iteration, summary, prompt,
                   new_configs, j, uuid_count, failure, final_pareto>>

\* Phase C, line 105: Executor.run_campaign(config) raises.
RunCampaignRaises ==
    /\ pc = "exec"
    /\ j <= Len(new_configs)
    /\ executor_calls' = executor_calls + 1
    /\ Raise("Executor.run_campaign")

\* The increment is forgotten.
IncrementBudget_Forgotten(used) == used
\* The increment is made twice.
IncrementBudget_Twice(used) == used + 2

\* Line 109: budget_used += 1
IncrementBudget(used) == used + 1
\* Line 111: if budget_used >= self.budget_max: break
BudgetReached(used, max) == used >= max

\* Phase C, lines 106-113: the record is stored, the budget counted, and the
\* for loop moves on or breaks.
Update ==
    /\ pc = "update"
    /\ world_model' = WorldModelManager_update(world_model, new_configs[j],
                                               pending[1], pending[2], uuid_count)
    /\ uuid_count' = uuid_count + 1
    /\ budget_used' = IncrementBudget(budget_used)
    /\ IF BudgetReached(budget_used', budget_max)
       THEN pc' = "analyze" /\ j' = j
       ELSE pc' = "exec" /\ j' = j + 1
    /\ UNCHANGED <<metrics_vars, call, result, design_space, initial_configs,
                   budget_max, planner_context,
                   iteration, summary, prompt, new_configs, pending, failure,
                   final_pareto, executor_calls, executor_returns>>

\* Line 103: the for loop has no configuration left.
RoundExecuted ==
    /\ pc = "exec"
    /\ j > Len(new_configs)
    /\ pc' = "analyze"
    /\ UNCHANGED <<metrics_vars, call, result, design_space, initial_configs,
                   budget_max, world_model,
                   planner_context, budget_used, iteration, summary, prompt,
                   new_configs, j, pending, uuid_count, failure, final_pareto,
                   executor_calls, executor_returns>>

\* Phases D and E, lines 117-124.
Analyze ==
    /\ pc = "analyze"
    /\ LET r == analysis_step(world_model)
       IN  planner_context' = [keys        |-> {"trends", "pareto_size"},
                               trends      |-> r.trends,
                               pareto_size |-> Cardinality(r.pareto_set)]
    /\ pc' = "while"
    /\ UNCHANGED <<metrics_vars, call, result, design_space, initial_configs,
                   budget_max, world_model,
                   budget_used, iteration, summary, prompt, new_configs, j,
                   pending, uuid_count, failure, final_pareto, executor_calls,
                   executor_returns>>

\* Phase 3, lines 132-134: the final analysis, and run() returns.
FinalAnalysis ==
    /\ pc = "final"
    /\ final_pareto' = analysis_step(world_model).pareto_set
    /\ pc' = "done"
    /\ UNCHANGED <<metrics_vars, call, result, design_space, initial_configs,
                   budget_max, world_model,
                   planner_context, budget_used, iteration, summary, prompt,
                   new_configs, j, pending, uuid_count, failure, executor_calls,
                   executor_returns>>

Next ==
    \/ SeedRunCampaign
    \/ SeedRunCampaignRaises
    \/ SeedUpdate
    \/ SeedPhaseEnds
    \/ RoundStarts
    \/ RoundStartsKeyError
    \/ LoopExits
    \/ PlannerStep
    \/ PlannerStepRaises
    \/ RunCampaign
    \/ RunCampaignRaises
    \/ Update
    \/ RoundExecuted
    \/ Analyze
    \/ FinalAnalysis

Spec == Init /\ [][Next]_vars

\* run() is one thread that keeps running, and every call it makes returns
\* or raises.
FairSpec == Spec /\ WF_vars(Next)

\* ================================================================ claims
Experiments == world_model.experiments
SeedCount == Len(initial_configs)
Ended == pc \in {"done", "raised"}

\* C1: with N seeds and N <= budget_max, the world model never holds more
\* than budget_max records (the discovery phase appends at most
\* budget_max - N), and no Executor call of the discovery phase starts, and no
\* result of one is stored, once budget_used has reached budget_max.
C1_BudgetCeiling ==
    SeedCount <= budget_max =>
        /\ Len(Experiments) <= budget_max
        /\ Len(Experiments) - SeedCount <= budget_max - SeedCount
        /\ (pc = "exec" /\ j <= Len(new_configs)) => budget_used < budget_max
        /\ pc = "update" => budget_used < budget_max
        /\ pc \in {"exec", "update"} => Len(new_configs) <= budget_max - budget_used + (j - 1)

\* The simulated three proposals were cut to the two the budget left, and the
\* second used the budget up.
C1_Witness ==
    /\ pc = "analyze"
    /\ SeedCount = 1
    /\ budget_max = 3
    /\ budget_used = budget_max
    /\ Len(new_configs) = 2
    /\ Len(Experiments) = 3

\* C2: when run() returns (so no call raised) and N <= budget_max,
\* budget_used is exactly budget_max and the world model holds exactly
\* budget_max records, the first N of them the seeds in order.
C2_ExactBudgetAtReturn ==
    (pc = "done" /\ SeedCount <= budget_max) =>
        /\ budget_used = budget_max
        /\ Len(Experiments) = budget_max
        /\ \A k \in 1..SeedCount : Experiments[k].config = initial_configs[k]

C2_Witness ==
    /\ pc = "done"
    /\ SeedCount = 1
    /\ budget_max = 3
    /\ Len(Experiments) = 3
    /\ Experiments[2].config.recon_family = "CIAS-Core-ELP"

\* C3: run() always terminates: if nothing raises, the discovery loop exits
\* and the final analysis is done.
C3_RunTerminates == [](pc # "raised") => <>(pc = "done")

\* C4: a round for which planner_step returned no configuration while budget
\* remains is followed, after boundedly many such rounds, by the end of the
\* loop (or by a round that has a configuration).
C4_EmptyRoundsEnd ==
    (pc = "exec" /\ new_configs = <<>>)
        ~> (Ended \/ pc = "final" \/ (pc = "exec" /\ new_configs # <<>>))

\* C5: a record, and its two index entries, exist only for an Executor call
\* that returned, and budget_used never counts more than the records stored:
\* when run_campaign raises, the failing configuration adds no record, no
\* index entry and nothing to budget_used.
C5_FailureAddsNothing ==
    /\ Len(Experiments) <= executor_returns
    /\ Len(world_model.indices.recon_family) <= executor_returns
    /\ Len(world_model.indices.uq_scheme) <= executor_returns
    /\ budget_used <= Len(Experiments)
    /\ (pc = "raised" /\ failure = "Executor.run_campaign") =>
          /\ executor_calls = executor_returns + 1
          /\ Len(Experiments) = executor_returns
          /\ Len(world_model.indices.recon_family) = executor_returns
          /\ Len(world_model.indices.uq_scheme) = executor_returns

\* run_campaign raised for a proposed configuration after records were stored
\* and counted.
C5_Witness ==
    /\ pc = "raised"
    /\ failure = "Executor.run_campaign"
    /\ budget_used > SeedCount
    /\ SeedCount > 0

\* C6: when Executor.run_campaign raises for a configuration, run() is not
\* aborted.
C6_RunSurvivesExecutorFailure ==
    ~(pc = "raised" /\ failure = "Executor.run_campaign")

\* C7: when the proposal generator raises, or returns data a projection
\* cannot read, the round has zero proposals and run() is not aborted.
C7_RunSurvivesProposalFailure ==
    ~(pc = "raised" /\ failure \in {"Planner.llm_generate_configs",
                                    "Planner.project_to_design_space"})

IndexNames == {"recon_family", "uq_scheme"}

\* C8: every (value, id) pair of the two indices is the tag and the id of a
\* record of the world model, and every record has exactly one entry, carrying
\* its tag, in each of the two indices.
C8_IndexConsistency ==
    \A name \in IndexNames :
        LET index == world_model.indices[name]
        IN  /\ \A k \in 1..Len(index) :
                  \E n \in 1..Len(Experiments) :
                      /\ Experiments[n].id = index[k][2]
                      /\ Experiments[n].config[name] = index[k][1]
            /\ \A n \in 1..Len(Experiments) :
                  /\ Cardinality({ k \in 1..Len(index) :
                                     index[k][2] = Experiments[n].id }) = 1
                  /\ \E k \in 1..Len(index) :
                      index[k] = <<Experiments[n].config[name], Experiments[n].id>>

\* Two records of one family and different schemes are indexed.
C8_Witness ==
    /\ Len(Experiments) >= 3
    /\ Experiments[1].config.recon_family = Experiments[3].config.recon_family
    /\ Experiments[1].config.uq_scheme # Experiments[3].config.uq_scheme

IsPrefixOf(s, t) == Len(s) <= Len(t) /\ SubSeq(t, 1, Len(s)) = s

\* C9: every step keeps the records and the entries of both indices already
\* stored, in place and unchanged; an update adds exactly one record at the
\* end and exactly one entry at the end of each index, and no other step
\* changes the world model.
C9_AppendOnly ==
    [][ /\ IsPrefixOf(world_model.experiments, world_model'.experiments)
        /\ IsPrefixOf(world_model.indices.recon_family, world_model'.indices.recon_family)
        /\ IsPrefixOf(world_model.indices.uq_scheme, world_model'.indices.uq_scheme)
        /\ IF pc \in {"seed_update", "update"}
           THEN /\ Len(world_model'.experiments) = Len(world_model.experiments) + 1
                /\ Len(world_model'.indices.recon_family)
                     = Len(world_model.indices.recon_family) + 1
                /\ Len(world_model'.indices.uq_scheme)
                     = Len(world_model.indices.uq_scheme) + 1
           ELSE world_model' = world_model ]_vars

\* An update is about to store a configuration the world model already holds.
C9_Witness ==
    /\ pc = "update"
    /\ Len(Experiments) >= 2
    /\ \E n \in 1..Len(Experiments) : Experiments[n].config = new_configs[j]

\* C10: no two records of the world model have the same id.
C10_DistinctIds ==
    \A a, b \in 1..Len(Experiments) :
        a # b => Experiments[a].id # Experiments[b].id

\* The same Configuration was executed twice.
C10_Witness ==
    \E a, b \in 1..Len(Experiments) :
        /\ a < b
        /\ Experiments[a].config = Experiments[b].config

\* ------------------------------------------- functions called on their own
\* The static methods of Planner and AnalysisAgent take everything they use
\* as arguments; call holds one call's arguments and result what it gave.
MaxRecords == 3

FrontMetrics ==
    { metrics \in
        { [Metrics(psnr, coverage, 10, extra[1]) EXCEPT !.other_metrics = extra[2]] :
            psnr \in {26, 28}, coverage \in {85, 95},
            extra \in { <<Some(10), EmptyMap>>, <<NoneValue, "{ssim: 90}">> } } :
        metrics.psnr = 26 \/ metrics.calibration_error.present }

\* The ids of a list of n records: all distinct, or the last equal to the first.
IdLists(n) ==
    { [k \in 1..n |-> k] } \cup
    (IF n >= 2 THEN { [k \in 1..n |-> IF k = n THEN 1 ELSE k] } ELSE {})

FrontRecord(id, metrics) ==
    ExperimentRecord(id, Configuration(EmptyMap, "CIAS-Core", EmptyMap, "None",
                                       EmptyMap, EmptyMap),
                     metrics, Artifacts(EmptyMap), 0)

FrontLists ==
    UNION { { [k \in 1..n |-> FrontRecord(ids[k], metrics[k])] :
                ids \in IdLists(n), metrics \in [1..n -> FrontMetrics] } :
            n \in 0..MaxRecords }

ObjectiveLists ==
    { <<"psnr", "coverage">>, <<"psnr">>, <<"coverage", "psnr", "latency">>,
      <<"ssim">>, <<"coverage", "calibration_error">>, <<>> }

ParetoCalls ==
    { [fn |-> "compute_pareto_front", experiments |-> experiments,
       objectives |-> objectives] :
        experiments \in FrontLists, objectives \in ObjectiveLists }

\* World models as WorldModelManager.update builds them, one update for each
\* <<config, metrics>> of a list.
RECURSIVE WorldModelFrom(_, _, _)
WorldModelFrom(wm, runs, n) ==
    IF runs = <<>> THEN wm
    ELSE WorldModelFrom(WorldModelManager_update(wm, Head(runs)[1], Head(runs)[2],
                                                 Artifacts(EmptyMap), n),
                        Tail(runs), n + 1)

AnalysisConfigs ==
    { Configuration(EmptyMap, recon_family, EmptyMap, uq_scheme, EmptyMap, EmptyMap) :
        recon_family \in {"CIAS-Core", "Baseline-CNN"},
        uq_scheme \in {"None", "Conformal"} }

AnalysisMetrics ==
    { Metrics(26, 95, 10, NoneValue), Metrics(28, 95, 10, Some(20)) }

WorldModels ==
    UNION { { WorldModelFrom(EmptyWorldModel, runs, 0) :
                runs \in [1..n -> AnalysisConfigs \X AnalysisMetrics] } :
            n \in 0..MaxRecords }

AnalysisCalls ==
    { [fn |-> "analysis_step", world_model |-> wm] : wm \in WorldModels }

MaxRemaining == 4

\* Design spaces a caller can pass: the two of the loop, one that declares
\* "CIAS-Core" second, one with an empty family list, one without the key.
FnDesignSpaces ==
    DesignSpaces \cup
    { [has_recon_families |-> TRUE,
       recon_families     |-> <<"Baseline-CNN", "CIAS-Core">>,
       uq_schemes         |-> <<"None", "Conformal">>],
      [has_recon_families |-> TRUE,  recon_families |-> <<>>, uq_schemes |-> <<"None">>],
      [has_recon_families |-> FALSE, recon_families |-> <<>>, uq_schemes |-> <<"None">>] }

FnSummaries ==
    { NoSummary,
      summarize_world_model(
          WorldModelFrom(EmptyWorldModel,
                         << <<Configuration(EmptyMap, "CIAS-Core", EmptyMap, "None",
                                            EmptyMap, EmptyMap),
                              Metrics(26, 95, 10, NoneValue)>> >>, 0)) }

FnLLMReturns ==
    LLMReturns \cup
    { [raised |-> FALSE, proposals |-> SimulatedProposals \o <<UnknownFamilyProposal>>] }

PlannerCalls ==
    { [fn |-> "planner_step", summary |-> s, design_space |-> d,
       budget_remaining |-> b, llm |-> l] :
        s \in FnSummaries, d \in FnDesignSpaces, b \in 0..MaxRemaining,
        l \in FnLLMReturns }

\* Raw proposals: every key present or missing, the family declared by some
\* design space, by none, or missing.
RawProposals ==
    { RawProposal(recon_family, uq_scheme, recon_params, forward_config, uq_params,
                  train_config) :
        recon_family \in {"CIAS-Core-ELP", "Baseline-CNN", "Transformer-XL", ABSENT},
        uq_scheme \in {"Conformal", ABSENT},
        recon_params \in {"{num_layers: 10}", ABSENT},
        forward_config \in {"{compression_ratio: 8}", ABSENT},
        uq_params \in {"{alpha: 0.1}", ABSENT},
        train_config \in {"{epochs: 50}", ABSENT} }

ProjectCalls ==
    { [fn |-> "project_to_design_space", proposal |-> p, design_space |-> d] :
        p \in RawProposals, d \in FnDesignSpaces }

\* Summaries of world models in which the given families and schemes occur
\* (once each), and the summary of the empty world model.
GapSummaries ==
    { [total_experiments |-> Cardinality(families) + Cardinality(schemes),
       best_psnr         |-> 28,
       best_config       |-> CHOOSE f \in families : TRUE,
       avg_psnr          |-> <<28, 1>>,
       recon_families    |-> [f \in families |-> 1],
       uq_schemes        |-> [u \in schemes |-> 1],
       frontiers         |-> <<>>,
       constraints       |-> "{max_latency: 100, min_coverage: 0.8}"] :
        families \in SUBSET {"CIAS-Core", "CIAS-Core-ELP", "Baseline-CNN",
                             "Transformer-XL"} \ {{}},
        schemes \in SUBSET {"Conformal", "Ensemble", "None"} \ {{}} }
    \cup {NoSummary}

GapCalls ==
    { [fn |-> "identify_underexplored_regions", summary |-> s] : s \in GapSummaries }

SummarizeCalls ==
    { [fn |-> "summarize_world_model", world_model |-> wm] : wm \in WorldModels }

\* Records with no calibration error or one of three values (thousandths).
CalibrationLists ==
    UNION { { [k \in 1..n |-> FrontRecord(k, Metrics(26, 85, 10, errors[k]))] :
                errors \in [1..n -> {NoneValue, Some(7), Some(14), Some(15)}] } :
            n \in 0..MaxRecords }

CalibrationCalls ==
    { [fn |-> "compute_calibration_stats", experiments |-> experiments] :
        experiments \in CalibrationLists }

\* An instance of a dataclass of data_structures.py, or a dict.
Object(class, fields) == [class |-> class, fields |-> fields]

\* The methods a dataclass defines besides the generated ones: only
\* Configuration has one, to_dict.
Methods(class) == IF class = "Configuration" THEN {"to_dict"} ELSE {}

\* obj.to_dict(): dataclasses.asdict where the class defines it, else
\* AttributeError.
to_dict(obj) ==
    IF "to_dict" \in Methods(obj.class)
    THEN [raised |-> FALSE, value |-> Object("dict", obj.fields)]
    ELSE [raised |-> TRUE, value |-> Object("AttributeError", "to_dict")]

\* cls.from_dict(data): no class defines it, so AttributeError.
from_dict(class, data) ==
    [raised |-> TRUE, value |-> Object("AttributeError", "from_dict")]

\* type(obj).from_dict(obj.to_dict())
round_trip(obj) ==
    IF to_dict(obj).raised THEN to_dict(obj)
    ELSE from_dict(obj.class, to_dict(obj).value)

RoundTripObjects ==
    { Object("ExperimentRecord", FrontRecord(1, metrics)) : metrics \in FrontMetrics }
    \cup { Object("Configuration", config) : config \in AnalysisConfigs \cup SeedConfigs }
    \cup { Object("Metrics", metrics) : metrics \in FrontMetrics }
    \cup { Object("Artifacts", Artifacts(uq_params)) : uq_params \in {EmptyMap, "{alpha: 0.1}"} }

RoundTripCalls ==
    { [fn |-> "round_trip", object |-> obj] : obj \in RoundTripObjects }

\* The records outside the returned frontier are removed from the world model.
analysis_step_effect_DropsDominated(wm) ==
    [wm EXCEPT !.experiments =
        SelectSeq(wm.experiments, LAMBDA exp : exp.id \in analysis_step(wm).pareto_set)]

\* The world model after analysis_step(world_model) has returned: the body
\* appends to strata, pareto_set_all and trends_all, all of them local, and
\* assigns nothing of the world model or of its records.
analysis_step_effect(wm) == wm

\* Two calls in a row on the same WorldModel object.
analysis_step_twice(wm) ==
    [first       |-> analysis_step(wm),
     world_model |-> analysis_step_effect(analysis_step_effect(wm)),
     second      |-> analysis_step(analysis_step_effect(wm))]

\* The world models of two strata: every record without uncertainty scheme.
AnalysisTwiceCalls ==
    { [fn |-> "analysis_step_twice", world_model |-> wm] :
        wm \in { w \in WorldModels :
                   \A k \in 1..Len(w.experiments) :
                       w.experiments[k].config.uq_scheme = "None" } }

\* A code cell is the sequence of its characters.
NewLine == "\n"

\* code.split('\n'): the lines, one more than there are newlines.
RECURSIVE SplitFrom(_, _, _)
SplitFrom(lines, line, code) ==
    IF code = <<>> THEN Append(lines, line)
    ELSE IF Head(code) = NewLine
         THEN SplitFrom(Append(lines, line), <<>>, Tail(code))
         ELSE SplitFrom(lines, Append(line, Head(code)), Tail(code))

split(code) == SplitFrom(<<>>, <<>>, code)

\* CellLineMapping.compute_hash: the head of the SHA256 digest, kept as a
\* value that depends on the code only.
compute_hash(code) == <<"sha256", code>>

CellLineMapping(cell_index, start_line, end_line, line_count, code_hash) ==
    [cell_index |-> cell_index,
     start_line |-> start_line,
     end_line   |-> end_line,
     cell_type  |-> "code",
     line_count |-> line_count,
     code_hash  |-> code_hash]

\* The for loop of build_cell_line_mappings from cell idx on.
RECURSIVE MappingsFrom(_, _, _, _)
MappingsFrom(mappings, current_line, idx, code_cells) ==
    IF code_cells = <<>> THEN mappings
    ELSE LET line_count == Len(split(Head(code_cells)))
             end_line == current_line + line_count - 1
         IN  MappingsFrom(Append(mappings,
                                 CellLineMapping(idx, current_line, end_line, line_count,
                                                 compute_hash(Head(code_cells)))),
                          end_line + 1, idx + 1, Tail(code_cells))

build_cell_line_mappings(code_cells, start_offset) ==
    MappingsFrom(<<>>, start_offset, 0, code_cells)

\* The last line of a cell is not counted as belonging to it.
RECURSIVE get_cell_for_line_OpenEnd(_, _)
get_cell_for_line_OpenEnd(mappings, line_number) ==
    IF mappings = <<>> THEN NoneValue
    ELSE IF Head(mappings).start_line <= line_number
            /\ line_number < Head(mappings).end_line
         THEN Some(Head(mappings))
         ELSE get_cell_for_line_OpenEnd(Tail(mappings), line_number)

\* get_cell_for_line: the first mapping whose range holds the line, or None.
RECURSIVE get_cell_for_line(_, _)
get_cell_for_line(mappings, line_number) ==
    IF mappings = <<>> THEN NoneValue
    ELSE IF Head(mappings).start_line <= line_number
            /\ line_number <= Head(mappings).end_line
         THEN Some(Head(mappings))
         ELSE get_cell_for_line(Tail(mappings), line_number)

\* Cells of one line (empty, and not), of two lines and of three.
CodeCells ==
    { <<>>, <<"x">>, <<"x", NewLine, "y">>, <<NewLine, NewLine>> }

MaxCells == 3
\* The largest number of lines MaxCells cells can have, and one more.
MaxLines == 3 * MaxCells + 1

CellLists == UNION { [1..n -> CodeCells] : n \in 0..MaxCells }

StartOffsets == {0, 1, 10}

CellForLineCalls ==
    { [fn |-> "get_cell_for_line", code_cells |-> cells, start_offset |-> offset,
       line_number |-> offset + delta] :
        cells \in CellLists, offset \in StartOffsets, delta \in (0 - 1)..MaxLines }

Calls == ParetoCalls \cup AnalysisCalls \cup PlannerCalls \cup ProjectCalls
         \cup GapCalls \cup SummarizeCalls \cup CalibrationCalls \cup RoundTripCalls \cup AnalysisTwiceCalls \cup CellForLineCalls

\* No AIScientistLoop is running: its state stays as constructed.
FnInit ==
    /\ call \in Calls
    /\ result = NoResult
    /\ pc = "call"
    /\ design_space = [has_recon_families |-> TRUE, recon_families |-> <<>>,
                       uq_schemes |-> <<>>]
    /\ initial_configs = <<>>
    /\ budget_max = 0
    /\ world_model = EmptyWorldModel
    /\ planner_context = [keys |-> {}, trends |-> <<>>, pareto_size |-> 0]
    /\ j = 1
    /\ budget_used = 0
    /\ iteration = 0
    /\ summary = NoSummary
    /\ prompt = planner_prompt(NoSummary, 0)
    /\ new_configs = <<>>
    /\ pending = NoPending
    /\ uuid_count = 0
    /\ failure = "none"
    /\ final_pareto = {}
    /\ executor_calls = 0
    /\ executor_returns = 0
    /\ collector = NewCollector
    /\ locks = OneLock
    /\ threads = NoThreads

Returns(fn, raised, value) ==
    /\ pc = "call"
    /\ call.fn = fn
    /\ ~result.done
    /\ result' = [done |-> TRUE, raised |-> raised, value |-> value]
    /\ UNCHANGED <<pc, design_space, initial_configs, budget_max, world_model,
                   planner_context, budget_used, iteration, summary, prompt,
                   new_configs, j, pending, uuid_count, failure, final_pareto,
                   executor_calls, executor_returns, call, metrics_vars>>

Call_compute_pareto_front ==
    /\ call.fn = "compute_pareto_front"
    /\ LET front == compute_pareto_front(call.experiments, call.objectives)
       IN  Returns("compute_pareto_front", front.raised, front.ids)

Call_analysis_step ==
    /\ call.fn = "analysis_step"
    /\ Returns("analysis_step", FALSE, analysis_step(call.world_model))

Call_planner_step ==
    /\ call.fn = "planner_step"
    /\ LET r == planner_step(call.summary, call.design_space, call.budget_remaining,
                             call.llm)
       IN  Returns("planner_step", r.raised, r.configs)

Call_project_to_design_space ==
    /\ call.fn = "project_to_design_space"
    /\ LET r == project_to_design_space(call.proposal, call.design_space)
       IN  Returns("project_to_design_space", r.raised, r.config)

Call_identify_underexplored_regions ==
    /\ call.fn = "identify_underexplored_regions"
    /\ Returns("identify_underexplored_regions", FALSE,
               identify_underexplored_regions(call.summary))

Call_summarize_world_model ==
    /\ call.fn = "summarize_world_model"
    /\ Returns("summarize_world_model", FALSE, summarize_world_model(call.world_model))

Call_compute_calibration_stats ==
    /\ call.fn = "compute_calibration_stats"
    /\ Returns("compute_calibration_stats", FALSE,
               compute_calibration_stats(call.experiments))

Call_round_trip ==
    /\ call.fn = "round_trip"
    /\ Returns("round_trip", round_trip(call.object).raised, round_trip(call.object).value)

Call_analysis_step_twice ==
    /\ call.fn = "analysis_step_twice"
    /\ Returns("analysis_step_twice", FALSE, analysis_step_twice(call.world_model))

\* get_cell_for_line(build_cell_line_mappings(code_cells, start_offset), line_number)
Call_get_cell_for_line ==
    /\ call.fn = "get_cell_for_line"
    /\ Returns("get_cell_for_line", FALSE,
               [mappings |-> build_cell_line_mappings(call.code_cells, call.start_offset),
                cell     |-> get_cell_for_line(
                                 build_cell_line_mappings(call.code_cells, call.start_offset),
                                 call.line_number)])

FnNext ==
    \/ Call_compute_pareto_front
    \/ Call_analysis_step
    \/ Call_planner_step
    \/ Call_project_to_design_space
    \/ Call_identify_underexplored_regions
    \/ Call_summarize_world_model
    \/ Call_compute_calibration_stats
    \/ Call_round_trip
    \/ Call_analysis_step_twice
    \/ Call_get_cell_for_line

FnSpec == FnInit /\ [][FnNext]_vars

\* ------------------------------------------------------- MetricsCollector
\* Each thread calls the collector at most this many times.
MaxCalls == 1

\* One record_* method, one get_*_statistics method, and reset: every
\* record_* method is `with self._lock:` around `self.<counter> += 1`.
CollectorMethods == {"record_agent_created", "get_agent_statistics", "reset"}

loop_vars == <<pc, design_space, initial_configs, budget_max, world_model,
               planner_context, budget_used, iteration, summary, prompt,
               new_configs, j, pending, uuid_count, failure, final_pareto,
               executor_calls, executor_returns, call, result>>

\* MetricsCollector() has been constructed and no thread has called it yet.
MetricsInit ==
    /\ collector = NewCollector
    /\ locks = OneLock
    /\ threads = NoThreads
    /\ call = NoCall
    /\ result = NoResult
    /\ pc = "metrics"
    /\ design_space = [has_recon_families |-> TRUE, recon_families |-> <<>>,
                       uq_schemes |-> <<>>]
    /\ initial_configs = <<>>
    /\ budget_max = 0
    /\ world_model = EmptyWorldModel
    /\ planner_context = [keys |-> {}, trends |-> <<>>, pareto_size |-> 0]
    /\ j = 1
    /\ budget_used = 0
    /\ iteration = 0
    /\ summary = NoSummary
    /\ prompt = planner_prompt(NoSummary, 0)
    /\ new_configs = <<>>
    /\ pending = NoPending
    /\ uuid_count = 0
    /\ failure = "none"
    /\ final_pareto = {}
    /\ executor_calls = 0
    /\ executor_returns = 0

\* The first statement inside the `with` block of a method.
FirstInside(method) ==
    CASE method = "record_agent_created" -> "load"
      [] method = "get_agent_statistics" -> "read"
      [] method = "reset"                -> "init_lock"

\* Thread t calls a method of the collector.
MethodCalled(t, method) ==
    /\ threads[t].pc = "idle"
    /\ threads[t].calls < MaxCalls
    /\ threads' = [threads EXCEPT ![t] = [@ EXCEPT !.pc = "with",
                                                   !.method = method,
                                                   !.calls = @ + 1]]
    /\ UNCHANGED <<collector, locks, loop_vars>>

\* `with self._lock:` evaluates self._lock: the thread now has the Lock
\* object the attribute names at this moment.
LockLoaded(t) ==
    /\ threads[t].pc = "with"
    /\ threads' = [threads EXCEPT ![t] = [@ EXCEPT !.pc = "acquire",
                                                   !.lock = collector.lock]]
    /\ UNCHANGED <<collector, locks, loop_vars>>

\* Lock.__enter__ returns: the Lock object the thread has was free.
Acquired(t) ==
    /\ threads[t].pc = "acquire"
    /\ threads[t].lock \notin locks.held
    /\ locks' = [locks EXCEPT !.held = @ \cup {threads[t].lock}]
    /\ threads' = [threads EXCEPT ![t] = [@ EXCEPT !.pc = FirstInside(threads[t].method)]]
    /\ UNCHANGED <<collector, loop_vars>>

\* Line 253, self.agents_created += 1: the attribute is read ...
CounterLoaded(t) ==
    /\ threads[t].pc = "load"
    /\ threads' = [threads EXCEPT ![t] = [@ EXCEPT !.pc = "store",
                                                   !.loaded = collector.agents_created]]
    /\ UNCHANGED <<collector, locks, loop_vars>>

\* ... and written, one more than what was read.
CounterStored(t) ==
    /\ threads[t].pc = "store"
    /\ collector' = [collector EXCEPT !.agents_created = threads[t].loaded + 1]
    /\ threads' = [threads EXCEPT ![t] = [@ EXCEPT !.pc = "release"]]
    /\ UNCHANGED <<locks, loop_vars>>

\* Lines 277-283, get_agent_statistics reads the counters.
StatisticsRead(t) ==
    /\ threads[t].pc = "read"
    /\ threads' = [threads EXCEPT ![t] = [@ EXCEPT !.pc = "release",
                                                   !.loaded = collector.agents_created]]
    /\ UNCHANGED <<collector, locks, loop_vars>>

\* reset, line 389, calls self.__init__(), whose line 56 is
\* self._lock = threading.Lock(): a new Lock object, free.
InitLock(t) ==
    /\ threads[t].pc = "init_lock"
    /\ locks' = [locks EXCEPT !.created = @ + 1]
    /\ collector' = [collector EXCEPT !.lock = locks.created + 1]
    /\ threads' = [threads EXCEPT ![t] = [@ EXCEPT !.pc = "init_counters"]]
    /\ UNCHANGED loop_vars

\* The rest of __init__, lines 57-84: the counters are set to 0.
InitCounters(t) ==
    /\ threads[t].pc = "init_counters"
    /\ collector' = [collector EXCEPT !.agents_created = 0]
    /\ threads' = [threads EXCEPT ![t] = [@ EXCEPT !.pc = "release"]]
    /\ UNCHANGED <<locks, loop_vars>>

\* The `with` block is left: the Lock object it entered is released.
Released(t) ==
    /\ threads[t].pc = "release"
    /\ locks' = [locks EXCEPT !.held = @ \ {threads[t].lock}]
    /\ threads' = [threads EXCEPT ![t] = [@ EXCEPT !.pc = "idle",
                                                   !.method = "none",
                                                   !.lock = 0,
                                                   !.loaded = 0]]
    /\ UNCHANGED <<collector, loop_vars>>

MetricsNext ==
    \/ \E t \in Threads, method \in CollectorMethods : MethodCalled(t, method)
    \/ \E t \in Threads : LockLoaded(t)
    \/ \E t \in Threads : Acquired(t)
    \/ \E t \in Threads : CounterLoaded(t)
    \/ \E t \in Threads : CounterStored(t)
    \/ \E t \in Threads : StatisticsRead(t)
    \/ \E t \in Threads : InitLock(t)
    \/ \E t \in Threads : InitCounters(t)
    \/ \E t \in Threads : Released(t)

MetricsSpec == MetricsInit /\ [][MetricsNext]_vars

\* ------------------------------------------------------- claims C11..C20
IdsOf(experiments) == { experiments[k].id : k \in 1..Len(experiments) }
DistinctIds(experiments) == Cardinality(IdsOf(experiments)) = Len(experiments)

\* Every record has a number for every objective.
AllNumbers(experiments, objectives) ==
    \A k \in 1..Len(experiments), o \in 1..Len(objectives) :
        GetAttr(experiments[k].metrics, objectives[o]).present

ValueOf(exp, obj) == GetAttr(exp.metrics, obj).value

\* b dominates a: at least as good on every objective, better on one.
Dominates(b, a, objectives) ==
    /\ \A o \in 1..Len(objectives) : ValueOf(b, objectives[o]) >= ValueOf(a, objectives[o])
    /\ \E o \in 1..Len(objectives) : ValueOf(b, objectives[o]) > ValueOf(a, objectives[o])

NotDominated(experiments, objectives) ==
    { experiments[k].id : k \in { n \in 1..Len(experiments) :
            \A m \in 1..Len(experiments) :
                ~Dominates(experiments[m], experiments[n], objectives) } }

SameVector(a, b, objectives) ==
    \A o \in 1..Len(objectives) : ValueOf(a, objectives[o]) = ValueOf(b, objectives[o])

ParetoReturned ==
    /\ call.fn = "compute_pareto_front"
    /\ result.done

\* C11: for records with distinct ids and objectives every record has a
\* number for, compute_pareto_front returns exactly the ids of the records
\* no other record dominates (at least as good on every objective, better on
\* one); two records with the same objective vector are both in or both out.
C11_ParetoFrontExact ==
    (/\ ParetoReturned
     /\ DistinctIds(call.experiments)
     /\ AllNumbers(call.experiments, call.objectives))
    => /\ ~result.raised
       /\ result.value = NotDominated(call.experiments, call.objectives)
       /\ \A a, b \in 1..Len(call.experiments) :
            SameVector(call.experiments[a], call.experiments[b], call.objectives)
            => (call.experiments[a].id \in result.value
                <=> call.experiments[b].id \in result.value)

\* Three records on psnr and coverage: one dominated and left out, two with
\* the same vector both returned.
C11_Witness ==
    /\ ParetoReturned
    /\ DistinctIds(call.experiments)
    /\ call.objectives = <<"psnr", "coverage">>
    /\ Len(call.experiments) = 3
    /\ ~result.raised
    /\ Cardinality(result.value) = 2
    /\ \E a, b, c \in 1..3 :
        /\ a # b
        /\ SameVector(call.experiments[a], call.experiments[b], call.objectives)
        /\ Dominates(call.experiments[a], call.experiments[c], call.objectives)
        /\ result.value = {call.experiments[a].id, call.experiments[b].id}

\* C12: whenever every record has a number for every objective the call
\* returns, and whenever it returns, the set holds only ids of the input
\* records and is empty exactly when the input list is empty.
C12_FrontNonEmptySubset ==
    ParetoReturned
    => /\ AllNumbers(call.experiments, call.objectives) => ~result.raised
       /\ ~result.raised
          => /\ result.value \subseteq IdsOf(call.experiments)
             /\ result.value = {} <=> call.experiments = <<>>

\* Three records of which two are dominated: one id comes back.
C12_Witness ==
    /\ ParetoReturned
    /\ Len(call.experiments) = 3
    /\ call.objectives = <<"psnr", "coverage">>
    /\ ~result.raised
    /\ Cardinality(result.value) = 1
    /\ result.value \subseteq IdsOf(call.experiments)

\* The value a record is to be compared with: 0 when it has none.
ValueOrZero(exp, obj) ==
    IF GetAttr(exp.metrics, obj).present THEN GetAttr(exp.metrics, obj).value ELSE 0

DominatesWithZero(b, a, objectives) ==
    /\ \A o \in 1..Len(objectives) :
            ValueOrZero(b, objectives[o]) >= ValueOrZero(a, objectives[o])
    /\ \E o \in 1..Len(objectives) :
            ValueOrZero(b, objectives[o]) > ValueOrZero(a, objectives[o])

\* C13: a call of compute_pareto_front returns a frontier, never an
\* exception, also when a record has no value for an objective (no such
\* Metrics field, calibration_error None, or the metric only in another
\* record's other_metrics); that record is compared with the value 0.
C13_MissingObjectiveIsZero ==
    (ParetoReturned /\ DistinctIds(call.experiments))
    => /\ ~result.raised
       /\ result.value =
            { call.experiments[k].id : k \in { n \in 1..Len(call.experiments) :
                \A m \in 1..Len(call.experiments) :
                    ~DominatesWithZero(call.experiments[m], call.experiments[n],
                                       call.objectives) } }

AnalysisReturned ==
    /\ call.fn = "analysis_step"
    /\ result.done

\* The pair analysis_step is to group by.
PairOf(exp) == <<exp.config.recon_family, exp.config.uq_scheme>>
PairsOf(experiments) == { PairOf(experiments[k]) : k \in 1..Len(experiments) }

\* The strata in which a record (records have distinct ids) is placed.
StrataHolding(strata, exp) ==
    { s \in 1..Len(strata) :
        \E i \in 1..Len(strata[s].experiments) : strata[s].experiments[i] = exp }

\* C14: analysis_step puts every record of the world model in exactly one
\* stratum, the one of its (recon_family, uq_scheme) pair, the strata hold
\* nothing else, and it returns one trend per distinct pair present, each
\* starting with that pair in brackets.
C14_StrataPartition ==
    AnalysisReturned
    => LET experiments == get_all_experiments(call.world_model)
           strata      == Strata(experiments)
           trends      == result.value.trends
       IN  /\ \A k \in 1..Len(experiments) :
                /\ Cardinality(StrataHolding(strata, experiments[k])) = 1
                /\ \A s \in StrataHolding(strata, experiments[k]) :
                        strata[s].key = PairOf(experiments[k])
           /\ \A s \in 1..Len(strata) :
                /\ strata[s].experiments # <<>>
                /\ \A i \in 1..Len(strata[s].experiments) :
                     /\ \E k \in 1..Len(experiments) : experiments[k] = strata[s].experiments[i]
                     /\ \A i2 \in 1..Len(strata[s].experiments) :
                            strata[s].experiments[i] = strata[s].experiments[i2] => i = i2
           /\ Len(trends) = Cardinality(PairsOf(experiments))
           /\ { trends[t].stratum_key : t \in 1..Len(trends) } = PairsOf(experiments)

\* Three records in two strata, two trends.
C14_Witness ==
    /\ AnalysisReturned
    /\ Len(get_all_experiments(call.world_model)) = 3
    /\ Cardinality(PairsOf(get_all_experiments(call.world_model))) = 2
    /\ Len(result.value.trends) = 2

\* The ids of the records that no record of the same (recon_family,
\* uq_scheme) pair dominates on psnr and coverage.
StratifiedFront(experiments) ==
    { experiments[k].id : k \in { n \in 1..Len(experiments) :
        \A m \in 1..Len(experiments) :
            PairOf(experiments[m]) = PairOf(experiments[n])
            => ~Dominates(experiments[m], experiments[n], <<"psnr", "coverage">>) } }

\* C15: the id set run() returns, and the one each round's analysis_step
\* gave, is the union of the per-stratum frontiers on psnr and coverage of
\* the world model it was computed from, and holds only ids of its records.
C15_StratifiedUnion ==
    /\ pc = "done"
       => /\ final_pareto = StratifiedFront(Experiments)
          /\ final_pareto \subseteq IdsOf(Experiments)
    /\ (pc = "while" /\ planner_context.keys # {})
       => planner_context.pareto_size = Cardinality(StratifiedFront(Experiments))

\* run() returned a set that keeps a record a record of another stratum
\* dominates, and leaves out one dominated inside its own stratum.
C15_Witness ==
    /\ pc = "done"
    /\ \E a, b, c, d \in 1..Len(Experiments) :
        /\ PairOf(Experiments[a]) # PairOf(Experiments[b])
        /\ Dominates(Experiments[b], Experiments[a], <<"psnr", "coverage">>)
        /\ Experiments[a].id \in final_pareto
        /\ PairOf(Experiments[c]) = PairOf(Experiments[d])
        /\ Dominates(Experiments[d], Experiments[c], <<"psnr", "coverage">>)
        /\ Experiments[c].id \notin final_pareto

\* C16: with N seeds and N >= budget_max, no round of the discovery loop
\* starts (no summary, planner call or further Executor call), every seed
\* is executed and stored although N may exceed budget_max, and the world
\* model run() returns holds exactly the N seed records, in order.
C16_SeedsBeyondBudget ==
    SeedCount >= budget_max
    => /\ pc \notin {"plan", "exec", "update", "analyze"}
       /\ iteration = 0
       /\ executor_calls <= SeedCount
       /\ pc \in {"while", "final", "done"}
          => /\ Len(Experiments) = SeedCount
             /\ executor_returns = SeedCount
             /\ budget_used = SeedCount
             /\ \A k \in 1..SeedCount : Experiments[k].config = initial_configs[k]

\* run() returned with more seed records than budget_max.
C16_Witness ==
    /\ pc = "done"
    /\ SeedCount > budget_max
    /\ budget_max >= 1
    /\ Len(Experiments) = SeedCount

PlannerReturned ==
    /\ call.fn = "planner_step"
    /\ result.done

\* The k-th projected proposal of the call.
Projected(k) == project_to_design_space(call.llm.proposals[k], call.design_space)

\* C17: planner_step raises only when the proposal generator or a
\* projection does; otherwise, with k proposals and budget_remaining >= 0,
\* it returns min(k, budget_remaining) configurations, the i-th being the
\* projection of the i-th proposal: a prefix of the projected list, never
\* longer than budget_remaining.
C17_TruncatedPrefix ==
    PlannerReturned
    => /\ result.raised
          <=> \/ call.llm.raised
              \/ \E k \in 1..Len(call.llm.proposals) : Projected(k).raised
       /\ ~result.raised
          => /\ Len(result.value) = Min2(Len(call.llm.proposals), call.budget_remaining)
             /\ Len(result.value) <= call.budget_remaining
             /\ \A i \in 1..Len(result.value) : result.value[i] = Projected(i).config

\* Three proposals and room for two: the first two come back.
C17_Witness ==
    /\ PlannerReturned
    /\ ~result.raised
    /\ Len(call.llm.proposals) = 3
    /\ call.budget_remaining = 2
    /\ Len(result.value) = 2
    /\ result.value[1].recon_family = "CIAS-Core-ELP"
    /\ result.value[2].recon_family = "CIAS-Core"

ProjectReturned ==
    /\ call.fn = "project_to_design_space"
    /\ result.done

\* The families the design space of the call declares.
Declared ==
    IF call.design_space.has_recon_families
    THEN Range(call.design_space.recon_families) ELSE {}

\* The value of a key of the proposal, or the given one when it is missing.
Passed(key, missing) ==
    IF call.proposal[key] = ABSENT THEN missing ELSE call.proposal[key]

\* C18: project_to_design_space returns a Configuration for every raw
\* proposal and design space, never an exception; its recon_family is a
\* declared family, the proposed one when that is declared and the first
\* declared one when it is missing or not declared; a missing uq_scheme
\* becomes "None", a missing parameter map becomes empty, and every key
\* that is present passes through.
C18_ProjectionTotal ==
    ProjectReturned
    => /\ ~result.raised
       /\ result.value.recon_family \in Declared
       /\ result.value.recon_family =
            IF call.proposal.recon_family \in Declared
            THEN call.proposal.recon_family
            ELSE call.design_space.recon_families[1]
       /\ result.value.uq_scheme = Passed("uq_scheme", "None")
       /\ \A key \in {"forward_config", "recon_params", "uq_params", "train_config"} :
            result.value[key] = Passed(key, EmptyMap)

GapsReturned ==
    /\ call.fn = "identify_underexplored_regions"
    /\ result.done

\* The two fixed reference vocabularies, and what a summary has observed.
ReferenceFamilies == {"CIAS-Core", "CIAS-Core-ELP", "Baseline-CNN"}
ReferenceSchemes == {"Conformal", "Ensemble", "None"}
Observed(s, key) == IF key \in DOMAIN s THEN DOMAIN s[key] ELSE {}

MissingTags(s) ==
    { <<"recon_family", f>> : f \in ReferenceFamilies \ Observed(s, "recon_families") }
    \cup { <<"uq_scheme", u>> : u \in ReferenceSchemes \ Observed(s, "uq_schemes") }

\* C19: identify_underexplored_regions never returns an empty list: it
\* returns one tag, once, for each reference family and each reference UQ
\* scheme the summary has not observed (all six for the summary of the empty
\* world model), and the one sentinel "explore_variations" exactly when
\* none is missing.
C19_GapTags ==
    GapsReturned
    => /\ ~result.raised
       /\ result.value # <<>>
       /\ Len(result.value) = Cardinality(Range(result.value))
       /\ Range(result.value) =
            IF MissingTags(call.summary) = {}
            THEN {<<"explore_variations", "">>}
            ELSE MissingTags(call.summary)

\* Every reference family and scheme observed: the sentinel alone.
C19_Witness ==
    /\ GapsReturned
    /\ ReferenceFamilies \subseteq Observed(call.summary, "recon_families")
    /\ ReferenceSchemes \subseteq Observed(call.summary, "uq_schemes")
    /\ result.value = <<<<"explore_variations", "">>>>

\* planner_step has built this round's prompt from this round's summary.
Planned == pc \in {"exec", "update", "analyze"}

\* C20: the gaps planner_step reports are taken against the design space
\* the loop was constructed with: every family and UQ scheme it lists that
\* the world model has not observed is reported, and nothing it does not
\* list is reported.
C20_GapsFromDesignSpace ==
    Planned
    => /\ \A f \in Range(design_space.recon_families) \ Observed(summary, "recon_families") :
            <<"recon_family", f>> \in Range(prompt.gaps)
       /\ \A u \in Range(design_space.uq_schemes) \ Observed(summary, "uq_schemes") :
            <<"uq_scheme", u>> \in Range(prompt.gaps)
       /\ \A g \in Range(prompt.gaps) :
            /\ g[1] = "recon_family" => g[2] \in Range(design_space.recon_families)
            /\ g[1] = "uq_scheme" => g[2] \in Range(design_space.uq_schemes)

\* ------------------------------------------------------- claims C21..C30
SummarizeReturned ==
    /\ call.fn = "summarize_world_model"
    /\ result.done

\* C21: summarize_world_model on a world model without records returns,
\* with total_experiments 0, best_psnr 0 and underexplored ["all"], and
\* raises nothing.
C21_EmptySummary ==
    (SummarizeReturned /\ get_all_experiments(call.world_model) = <<>>)
    => /\ ~result.raised
       /\ result.value.total_experiments = 0
       /\ result.value.best_psnr = 0
       /\ "underexplored" \in DOMAIN result.value
       /\ result.value.underexplored = <<"all">>

\* The call on the empty world model has returned.
C21_Witness ==
    /\ SummarizeReturned
    /\ call.world_model = EmptyWorldModel
    /\ result.value.total_experiments = 0

CalibrationReturned ==
    /\ call.fn = "compute_calibration_stats"
    /\ result.done

\* The records of the call that have a calibration error, and the errors.
Calibrated == { k \in 1..Len(call.experiments) :
                    call.experiments[k].metrics.calibration_error.present }
ErrorAt(k) == call.experiments[k].metrics.calibration_error.value

\* Nothing to average: zeros, and no min_error key.
NoCalibrationStats ==
    /\ DOMAIN result.value = {"mean_error", "max_error"}
    /\ result.value.mean_error[1] = 0
    /\ result.value.max_error = 0

\* max_error and min_error are the largest and the smallest error.
ExactExtremes ==
    /\ DOMAIN result.value = {"mean_error", "max_error", "min_error"}
    /\ \E k \in Calibrated : result.value.max_error = ErrorAt(k)
    /\ \E k \in Calibrated : result.value.min_error = ErrorAt(k)
    /\ \A k \in Calibrated : /\ ErrorAt(k) <= result.value.max_error
                             /\ ErrorAt(k) >= result.value.min_error

\* C22 as stated: compute_calibration_stats never raises; with no
\* calibrated record it returns mean_error 0 and max_error 0 and no
\* min_error; otherwise max_error and min_error are the extremes of the
\* calibrated records' errors and min_error <= mean_error <= max_error.
C22_MeanBetweenExtremes ==
    CalibrationReturned
    => /\ ~result.raised
       /\ IF Calibrated = {} THEN NoCalibrationStats
          ELSE /\ ExactExtremes
               /\ result.value.min_error * result.value.mean_error[2]
                    <= result.value.mean_error[1]
               /\ result.value.mean_error[1]
                    <= result.value.max_error * result.value.mean_error[2]

\* C22, amended: as above, but mean_error is the float quotient of the float
\* sum by the count n of calibrated records, which lies between min_error
\* and max_error only up to n roundings (a relative n / 2^MantissaBits); it
\* is the error itself when n = 1, and records without an error count
\* neither in the sum nor in n.
C22_MeanWithinRounding ==
    CalibrationReturned
    => /\ ~result.raised
       /\ IF Calibrated = {} THEN NoCalibrationStats
          ELSE LET n    == Cardinality(Calibrated)
                   mean == result.value.mean_error
               IN  /\ ExactExtremes
                   /\ result.value.min_error <= result.value.max_error
                   /\ result.value.min_error * (Pow2(MantissaBits) - n) * mean[2]
                        <= mean[1] * Pow2(MantissaBits)
                   /\ mean[1] * Pow2(MantissaBits)
                        <= result.value.max_error * (Pow2(MantissaBits) + n) * mean[2]
                   /\ n = 1 => mean[1] = result.value.max_error * mean[2]

\* Two calibrated records and one without: the three keys come back.
C22_Witness ==
    /\ CalibrationReturned
    /\ Len(call.experiments) = 3
    /\ Cardinality(Calibrated) = 2
    /\ "min_error" \in DOMAIN result.value
    /\ result.value.min_error < result.value.max_error

RoundTripReturned ==
    /\ call.fn = "round_trip"
    /\ result.done

\* C23: for every ExperimentRecord, from_dict(to_dict(record)) returns, and
\* what it returns is an ExperimentRecord equal to the record field for
\* field, the nested Configuration, Metrics and Artifacts included.
C23_RoundTrip ==
    (RoundTripReturned /\ call.object.class = "ExperimentRecord")
    => /\ ~result.raised
       /\ result.value = call.object

\* A prompt has been built in a round that follows an analysis: the planner
\* context holds what the analysis of the round before stored.
PromptBuiltAfterAnalysis ==
    /\ pc \in {"exec", "update"}
    /\ "pareto_size" \in planner_context.keys

\* C24: the prompt built in round k+1 reflects the frontier computed at the
\* end of round k: the number of frontier configurations it states is the
\* pareto_size the analysis of round k stored in the planner context.
C24_ContextCarriedIntoPrompt ==
    PromptBuiltAfterAnalysis => prompt.n_frontiers = planner_context.pareto_size

AnalysisTwiceReturned ==
    /\ call.fn = "analysis_step_twice"
    /\ result.done

Inside(t) ==
    threads[t].pc \in {"load", "store", "read", "init_lock", "init_counters", "release"}

\* No two threads are inside a lock-protected section at the same time.
MutualExclusion ==
    \A t1, t2 \in Threads : (Inside(t1) /\ Inside(t2)) => t1 = t2

\* No two threads are between the read and the write of `+= 1` at the same
\* time: two increments that read the same value count as one.
IncrementsKept ==
    \A t1, t2 \in Threads :
        (threads[t1].pc = "store" /\ threads[t2].pc = "store") => t1 = t2

\* C26: with record_*, get_*_statistics and reset called concurrently on one
\* collector, no two threads are ever inside a lock-protected section at the
\* same time, and no counter increment is lost.
C26_ThreadSafe ==
    /\ MutualExclusion
    /\ IncrementsKept

CellForLineReturned ==
    /\ call.fn = "get_cell_for_line"
    /\ result.done

\* The number of lines of a cell: one more than its newline characters.
LinesOf(code) == 1 + Cardinality({ k \in 1..Len(code) : code[k] = NewLine })

\* The mappings tile the lines from start_offset on: one per cell, in order,
\* each starting where the one before ended.
Tiles(mappings, code_cells, start_offset) ==
    /\ Len(mappings) = Len(code_cells)
    /\ \A k \in 1..Len(mappings) :
        /\ mappings[k].cell_index = k - 1
        /\ mappings[k].line_count = LinesOf(code_cells[k])
        /\ mappings[k].start_line =
              IF k = 1 THEN start_offset ELSE mappings[k - 1].end_line + 1
        /\ mappings[k].end_line = mappings[k].start_line + mappings[k].line_count - 1

\* The positions of the mappings whose range holds the line.
Holding(mappings, line_number) ==
    { k \in 1..Len(mappings) :
        mappings[k].start_line <= line_number /\ line_number <= mappings[k].end_line }

\* C27: the ranges built tile the notebook from start_offset on without gap
\* or overlap, and get_cell_for_line returns the mapping of the one cell that
\* holds a line of the tiled range, and None for a line outside it.
C27_CellsTileLines ==
    CellForLineReturned
    => LET mappings == result.value.mappings
           line_number == call.line_number
           tiled == mappings # <<>>
                    /\ call.start_offset <= line_number
                    /\ line_number <= mappings[Len(mappings)].end_line
       IN  /\ ~result.raised
           /\ Tiles(mappings, call.code_cells, call.start_offset)
           /\ tiled => /\ Cardinality(Holding(mappings, line_number)) = 1
                       /\ result.value.cell.present
                       /\ \A k \in Holding(mappings, line_number) :
                            result.value.cell.value = mappings[k]
           /\ ~tiled => result.value.cell = NoneValue

\* The last line of the second of three cells is looked up, with an offset
\* other than 1.
C27_Witness ==
    /\ CellForLineReturned
    /\ Len(call.code_cells) = 3
    /\ call.start_offset = 10
    /\ result.value.cell.present
    /\ result.value.cell.value.cell_index = 1
    /\ result.value.cell.value.line_count = 3
    /\ call.line_number = result.value.cell.value.end_line

\* The configuration of the k-th record of the world model.
ConfigAt(k) == world_model.experiments[k].config

\* The records the world model held when the running round was summarised.
RoundBase == summary.total_experiments

\* The first n configurations of the round are those of the n records added
\* since the round began, in order.
RoundExecutedUpTo(n) ==
    /\ Len(world_model.experiments) = RoundBase + n
    /\ \A k \in 1..n : ConfigAt(RoundBase + k) = new_configs[k]

\* C28: Executor calls are made one at a time, each successful one followed
\* by its update before the next; the records hold the seed configurations
\* first, in order, and then every configuration planner_step returned in a
\* round, in proposal order: when the for loop of a round is left, by
\* exhaustion or by the break, no configuration of the round is unexecuted.
C28_EveryProposalExecuted ==
    /\ executor_calls - executor_returns \in {0, 1}
    /\ (pc # "raised") => executor_calls = executor_returns
    /\ (pc \in {"update", "seed_update"})
          => executor_returns = Len(world_model.experiments) + 1
    /\ (pc \notin {"update", "seed_update", "raised"})
          => executor_returns = Len(world_model.experiments)
    /\ (pc \notin {"seed", "seed_update", "raised"})
          => /\ Len(world_model.experiments) >= Len(initial_configs)
             /\ \A k \in 1..Len(initial_configs) : ConfigAt(k) = initial_configs[k]
    /\ (pc \in {"exec", "update"}) => RoundExecutedUpTo(j - 1)
    /\ (pc = "analyze") => RoundExecutedUpTo(Len(new_configs))

\* A round of two configurations is left by the break, after a seed.
C28_Witness ==
    /\ pc = "analyze"
    /\ Len(initial_configs) = 1
    /\ Len(new_configs) = 2
    /\ budget_used = budget_max
    /\ executor_returns = 3
    /\ ConfigAt(3) = new_configs[2]

\* C29: with no seed configuration and budget_max >= 1 the first round
\* summarises the empty world model and goes on to planning and execution
\* without raising, and a run that returns has a non-empty world model.
C29_EmptyStartRuns ==
    (Len(initial_configs) = 0 /\ budget_max >= 1)
    => /\ ~(pc = "raised" /\ failure = "KeyError: avg_psnr")
       /\ (pc = "done") => Len(world_model.experiments) >= 1

\* C30: past the seed phase, budget_used is the number of records of the
\* world model: when a round starts, after every update of a round and when
\* run() returns; the summary of a round therefore has total_experiments
\* equal to the budget_used the round started with.
C30_BudgetCountsRecords ==
    /\ (pc \in {"while", "plan", "exec", "update", "analyze", "final", "done"})
          => budget_used = Len(world_model.experiments)
    /\ (pc = "plan") => summary.total_experiments = budget_used
    /\ (pc \in {"exec", "update"}) => summary.total_experiments + (j - 1) = budget_used
    /\ (pc = "raised" /\ failure = "KeyError: avg_psnr")
          => summary.total_experiments = budget_used

\* The second round has been summarised, after one seed and a first round
\* of one configuration.
C30_Witness ==
    /\ pc = "plan"
    /\ iteration = 2
    /\ Len(initial_configs) = 1
    /\ budget_used = 2
    /\ summary.total_experiments = 2
    /\ executor_calls = executor_returns

====
